---- MODULE Spec2Model ----
(***************************************************************************)
(* Face tracker and slot assigner of olymbeach.                            *)
(*   src/utils/faceMatching.ts   updateTrackedFaces, assignFacesToSlots    *)
(*   src/unnamed/part_002        useFaceTracking (the throttled loop)      *)
(*   src/App.tsx                 the inline tracker, arrival-order slots   *)
(* Distances are kept as 4 * distance^2 (an integer, because a centre is   *)
(* x + width/2); every comparison of the source is between two distances   *)
(* or a distance and the threshold, and squaring preserves both.           *)
(***************************************************************************)
EXTENDS Integers, Sequences, FiniteSets, TLC

\* ---------------------------------------------------------------- constants
MATCH_DISTANCE_THRESHOLD == 200
STALE_TRACK_TIMEOUT == 500
DETECTION_INTERVAL == 50
NumSlots == 3

\* ------------------------------------------------------------------- bounds
MaxId == 5
MaxCycles == 3
MaxTime == 700

\* ----------------------------------------------------------------- the data
Box(x, y, w, h) == [x |-> x, y |-> y, width |-> w, height |-> h]

\* BoxA and BoxA2 are 2.2 px apart, BoxA and BoxB exactly 200 px (120, 160),
\* BoxA2 and BoxB 198 px; BoxC is far from the three.
BoxA == Box(10, 10, 50, 50)
BoxA2 == Box(12, 11, 50, 50)
BoxB == Box(130, 170, 50, 50)
BoxC == Box(900, 10, 50, 50)
Boxes == {BoxA, BoxA2, BoxB, BoxC}

\* the gaps between two detection cycles that the model takes
Steps == {DETECTION_INTERVAL, STALE_TRACK_TIMEOUT - DETECTION_INTERVAL, STALE_TRACK_TIMEOUT}

NoSlot == -1
Null == [null |-> TRUE]

TrackedFace(id, data, lastSeen, slotIndex) ==
  [id |-> id, data |-> data, lastSeen |-> lastSeen, slotIndex |-> slotIndex]

Range(s) == {s[i] : i \in 1..Len(s)}
Ids(s) == {s[i].id : i \in 1..Len(s)}

\* the detection lists a cycle draws from
DetectionLists ==
  {<<>>, <<BoxA>>, <<BoxA2>>, <<BoxB>>,
   <<BoxA, BoxA>>, <<BoxB, BoxB>>, <<BoxA, BoxC>>}

\* ------------------------------------------------------------------ tracker
calculateFaceDistance(face1, face2) ==
  LET center1X == 2 * face1.x + face1.width
      center1Y == 2 * face1.y + face1.height
      center2X == 2 * face2.x + face2.width
      center2Y == 2 * face2.y + face2.height
  IN  (center1X - center2X) * (center1X - center2X)
        + (center1Y - center2Y) * (center1Y - center2Y)

\* distance < FACE_TRACKING.MATCH_DISTANCE_THRESHOLD, on 4 * distance^2
WithinThresholdInclusive(distance) ==
  distance <= 4 * MATCH_DISTANCE_THRESHOLD * MATCH_DISTANCE_THRESHOLD

WithinThreshold(distance) ==
  distance < 4 * MATCH_DISTANCE_THRESHOLD * MATCH_DISTANCE_THRESHOLD

\* the inner forEach: the first unused detection of minimal distance, 0 = -1
BestDetection(track, currentDetections, used) ==
  LET cand == {i \in 1..Len(currentDetections) : i \notin used}
      d(i) == calculateFaceDistance(currentDetections[i], track.data)
  IN  IF cand = {} THEN 0
      ELSE CHOOSE i \in cand :
             \A j \in cand : d(i) < d(j) \/ (d(i) = d(j) /\ i <= j)

\* a track that adopts a detection takes its box
AdoptStale(track, detection, currentTime) ==
  [track EXCEPT !.lastSeen = currentTime]

AdoptDropSlot(track, detection, currentTime) ==
  [track EXCEPT !.data = detection, !.lastSeen = currentTime, !.slotIndex = NoSlot]

Adopt(track, detection, currentTime) ==
  [track EXCEPT !.data = detection, !.lastSeen = currentTime]

\* the detection is marked as used
MarkUsedNever(used, idx) == used

MarkUsed(used, idx) == used \cup {idx}

\* one turn of the outer forEach of step 1
MatchOne(track, currentDetections, used, currentTime) ==
  LET bestDetectionIdx == BestDetection(track, currentDetections, used)
      matched == /\ bestDetectionIdx # 0
                 /\ WithinThreshold(calculateFaceDistance(
                        currentDetections[bestDetectionIdx], track.data))
  IN  IF matched
      THEN [track |-> Adopt(track, currentDetections[bestDetectionIdx], currentTime),
            used |-> MarkUsed(used, bestDetectionIdx),
            claim |-> bestDetectionIdx]
      ELSE [track |-> track, used |-> used, claim |-> 0]

\* step 1: the tracks in array order, each against the unused detections
RECURSIVE MatchPass(_, _, _, _)
MatchPass(currentDetections, trackedFaces, currentTime, acc) ==
  LET i == Len(acc.tracks) + 1
  IN  IF i > Len(trackedFaces) THEN acc
      ELSE LET r == MatchOne(trackedFaces[i], currentDetections, acc.used, currentTime)
           IN  MatchPass(currentDetections, trackedFaces, currentTime,
                         [tracks |-> Append(acc.tracks, r.track),
                          used |-> r.used,
                          claims |-> Append(acc.claims, r.claim)])

MatchTracksLastFirst(currentDetections, trackedFaces, currentTime) ==
  LET Rev(q) == [i \in 1..Len(q) |-> q[Len(q) + 1 - i]]
      m == MatchPass(currentDetections, Rev(trackedFaces), currentTime,
                     [tracks |-> <<>>, used |-> {}, claims |-> <<>>])
  IN  [tracks |-> Rev(m.tracks), used |-> m.used, claims |-> Rev(m.claims)]

MatchTracks(currentDetections, trackedFaces, currentTime) ==
  MatchPass(currentDetections, trackedFaces, currentTime,
            [tracks |-> <<>>, used |-> {}, claims |-> <<>>])

\* currentNextId after k evaluations of currentNextId++
NewIdNoIncrement(nextFaceId, k) == nextFaceId

NewId(nextFaceId, k) == nextFaceId + k

\* step 2: one new track per unused detection, in detection order
CreateTracksLastFirst(currentDetections, used, nextFaceId, currentTime, acc) ==
  LET unusedIdx == {i \in 1..Len(currentDetections) : i \notin used}
      FromEnd(k) == CHOOSE i \in unusedIdx :
                      Cardinality({j \in unusedIdx : j > i}) = k - 1
  IN  [k \in 1..Cardinality(unusedIdx) |->
         TrackedFace(NewId(nextFaceId, k - 1), currentDetections[FromEnd(k)],
                     currentTime, NoSlot)]

RECURSIVE CreateTracks(_, _, _, _, _)
CreateTracks(currentDetections, used, nextFaceId, currentTime, acc) ==
  LET unusedIdx == {i \in 1..Len(currentDetections) : i \notin used}
      done == Len(acc)
  IN  IF done = Cardinality(unusedIdx) THEN acc
      ELSE LET idx == CHOOSE i \in unusedIdx :
                        Cardinality({j \in unusedIdx : j < i}) = done
           IN  CreateTracks(currentDetections, used, nextFaceId, currentTime,
                 Append(acc, TrackedFace(NewId(nextFaceId, done),
                                         currentDetections[idx], currentTime, NoSlot)))

\* step 3: currentTime - track.lastSeen < FACE_TRACKING.STALE_TRACK_TIMEOUT
IsFreshPositive(track, currentTime) ==
  /\ currentTime - track.lastSeen > 0
  /\ currentTime - track.lastSeen < STALE_TRACK_TIMEOUT

IsFreshInclusive(track, currentTime) ==
  currentTime - track.lastSeen <= STALE_TRACK_TIMEOUT

IsFresh(track, currentTime) ==
  currentTime - track.lastSeen < STALE_TRACK_TIMEOUT

PruneNothing(activeTracks, currentTime) == activeTracks

PruneUnslotted(activeTracks, currentTime) ==
  LET Keep(track) == IsFresh(track, currentTime) \/ track.slotIndex # NoSlot
  IN  SelectSeq(activeTracks, Keep)

Prune(activeTracks, currentTime) ==
  LET Keep(track) == IsFresh(track, currentTime)
  IN  SelectSeq(activeTracks, Keep)

\* step 4: prunedTracks.sort((a, b) => a.id - b.id), a stable sort
SortNothing(s) == s

SortByIdDescending(s) ==
  [k \in 1..Len(s) |->
     s[CHOOSE i \in 1..Len(s) :
         Cardinality({j \in 1..Len(s) : s[j].id > s[i].id \/ (s[j].id = s[i].id /\ j < i)})
           = k - 1]]

RECURSIVE SortById(_)
SortById(s) ==
  IF Len(s) <= 1 THEN s
  ELSE LET rest == SortById(SubSeq(s, 1, Len(s) - 1))
           last == s[Len(s)]
           k == Cardinality({i \in 1..Len(rest) : rest[i].id <= last.id})
       IN  SubSeq(rest, 1, k) \o <<last>> \o SubSeq(rest, k + 1, Len(rest))

\* steps 1 and 2: the claims of the tracks, the tracks created, activeTracks
TrackerSteps(currentDetections, trackedFaces, nextFaceId, currentTime) ==
  LET m == MatchTracks(currentDetections, trackedFaces, currentTime)
      created == CreateTracks(currentDetections, m.used, nextFaceId, currentTime, <<>>)
  IN  [claims |-> m.claims, created |-> created, activeTracks |-> m.tracks \o created]

\* the array trackedFaces as the caller reads it after the call: activeTracks
\* is a copy of the array ([...trackedFaces]) that holds the same track
\* objects, and step 1 writes data and lastSeen into those objects
PassedIn(activeTracks, trackedFaces) ==
  SubSeq(activeTracks, 1, Len(trackedFaces))

updateTrackedFacesPruneFirst(currentDetections, trackedFaces, nextFaceId, currentTime) ==
  LET s == TrackerSteps(currentDetections, Prune(trackedFaces, currentTime),
                        nextFaceId, currentTime)
  IN  [updatedTracks |-> SortById(s.activeTracks),
       newNextId |-> NewId(nextFaceId, Len(s.created))]

updateTrackedFaces(currentDetections, trackedFaces, nextFaceId, currentTime) ==
  LET s == TrackerSteps(currentDetections, trackedFaces, nextFaceId, currentTime)
  IN  [updatedTracks |-> SortById(Prune(s.activeTracks, currentTime)),
       newNextId |-> NewId(nextFaceId, Len(s.created))]

\* ------------------------------------------------------------ slot assigner
\* the slot indices 0..numSlots-1 that no track holds, ascending
getAvailableSlotsAll(trackedFaces, numSlots) ==
  [i \in 1..numSlots |-> i - 1]

getAvailableSlots(trackedFaces, numSlots) ==
  LET usedSlots == {trackedFaces[i].slotIndex :
                      i \in {j \in 1..Len(trackedFaces) : trackedFaces[j].slotIndex # NoSlot}}
      IsFree(i) == i \notin usedSlots
  IN  SelectSeq([i \in 1..numSlots |-> i - 1], IsFree)

\* the draws of Math.floor(Math.random() * (i + 1)), one for each position
\* i = length-1 .. 1 of the array (here 1-based: position i draws from 1..i)
RandomDraws(n) == {r \in [2..n -> 1..n] : \A i \in 2..n : r[i] <= i}

\* Fisher-Yates from the last position down, with the draws rnd
RECURSIVE FisherYates(_, _, _)
FisherYates(shuffled, i, rnd) ==
  IF i < 2 THEN shuffled
  ELSE FisherYates([shuffled EXCEPT ![i] = shuffled[rnd[i]],
                                    ![rnd[i]] = shuffled[i]], i - 1, rnd)

shuffleArrayNothing(array, rnd) == array

shuffleArray(array, rnd) == FisherYates(array, Len(array), rnd)

\* the values of Math.floor(Math.random() * length), here from 1; one value
\* when the array is empty and the draw is not made
RandomIndexes(length) == IF length = 0 THEN {1} ELSE 1..length

\* assignRandomSlot: undefined without a free slot, else available[randomIndex]
assignRandomSlot(trackedFaces, numSlots, randomIndex) ==
  LET available == getAvailableSlots(trackedFaces, numSlots)
  IN  IF Len(available) = 0 THEN NoSlot ELSE available[randomIndex]

\* track.slotIndex === undefined || track.slotIndex >= numSlots
IsUnassignedAlways(track, numSlots) == TRUE

IsUnassignedOutOfRange(track, numSlots) == track.slotIndex >= numSlots

IsUnassigned(track, numSlots) ==
  track.slotIndex = NoSlot \/ track.slotIndex >= numSlots

\* the positions in trackedFaces of the unassigned faces, in array order
UnassignedFacesFirstOnly(trackedFaces, numSlots) ==
  LET Unassigned(i) == IsUnassigned(trackedFaces[i], numSlots)
      all == SelectSeq([i \in 1..Len(trackedFaces) |-> i], Unassigned)
  IN  IF Len(all) = 0 THEN all ELSE <<all[1]>>

UnassignedFaces(trackedFaces, numSlots) ==
  LET Unassigned(i) == IsUnassigned(trackedFaces[i], numSlots)
  IN  SelectSeq([i \in 1..Len(trackedFaces) |-> i], Unassigned)

\* the length of unassignedFaces.slice(0, shuffledSlots.length)
SliceLengthButOne(unassignedFaces, shuffledSlots) ==
  IF Len(unassignedFaces) < Len(shuffledSlots) - 1
  THEN Len(unassignedFaces) ELSE Len(shuffledSlots) - 1

SliceLength(unassignedFaces, shuffledSlots) ==
  IF Len(unassignedFaces) < Len(shuffledSlots)
  THEN Len(unassignedFaces) ELSE Len(shuffledSlots)

\* the tracks as assignFacesToSlots leaves them (it writes track.slotIndex)
AssignedTracks(trackedFaces, numSlots, rnd) ==
  LET unassignedFaces == UnassignedFaces(trackedFaces, numSlots)
      shuffledSlots == shuffleArray(getAvailableSlots(trackedFaces, numSlots), rnd)
      Given(i) == {k \in 1..Len(unassignedFaces) :
                     k <= SliceLength(unassignedFaces, shuffledSlots)
                     /\ unassignedFaces[k] = i}
  IN  [i \in 1..Len(trackedFaces) |->
         IF Given(i) = {} THEN trackedFaces[i]
         ELSE [trackedFaces[i] EXCEPT
                 !.slotIndex = shuffledSlots[CHOOSE k \in Given(i) : TRUE]]]

\* new Array(numSlots) throws a RangeError when numSlots is negative
ArrayLengthValid(numSlots) == numSlots >= 0

\* the array assignFacesToSlots returns: the first forEach writes the box of
\* every track that holds a slot below numSlots, the last forEach the boxes
\* of the faces that receive one
assignFacesToSlotsOldOnly(trackedFaces, numSlots, rnd) ==
  LET Old(k) == {i \in 1..Len(trackedFaces) :
                   /\ trackedFaces[i].slotIndex # NoSlot
                   /\ trackedFaces[i].slotIndex < numSlots
                   /\ trackedFaces[i].slotIndex = k}
  IN  [k \in 1..numSlots |->
         IF Old(k - 1) # {} THEN trackedFaces[CHOOSE i \in Old(k - 1) : TRUE].data
         ELSE Null]

assignFacesToSlots(trackedFaces, numSlots, rnd) ==
  LET unassignedFaces == UnassignedFaces(trackedFaces, numSlots)
      shuffledSlots == shuffleArray(getAvailableSlots(trackedFaces, numSlots), rnd)
      Old(k) == {i \in 1..Len(trackedFaces) :
                   /\ trackedFaces[i].slotIndex # NoSlot
                   /\ trackedFaces[i].slotIndex < numSlots
                   /\ trackedFaces[i].slotIndex = k}
      New(k) == {j \in 1..Len(unassignedFaces) :
                   j <= SliceLength(unassignedFaces, shuffledSlots)
                   /\ shuffledSlots[j] = k}
      Last(S) == CHOOSE i \in S : \A j \in S : j <= i
  IN  [k \in 1..numSlots |->
         IF New(k - 1) # {} THEN trackedFaces[unassignedFaces[Last(New(k - 1))]].data
         ELSE IF Old(k - 1) # {} THEN trackedFaces[Last(Old(k - 1))].data
         ELSE Null]

\* ------------------------------------------------------ arrival-order slots
\* App.tsx steps 4 and 5: sort by id, the first three tracks to slots 0..2
ArrivalOrderSlotsById(prunedTracks) ==
  [i \in 1..NumSlots |->
     IF \E k \in 1..Len(prunedTracks) : prunedTracks[k].id = i - 1
     THEN prunedTracks[CHOOSE k \in 1..Len(prunedTracks) : prunedTracks[k].id = i - 1].data
     ELSE Null]

ArrivalOrderSlots(prunedTracks) ==
  LET sorted == SortById(prunedTracks)
  IN  [i \in 1..NumSlots |-> IF i <= Len(sorted) THEN sorted[i].data ELSE Null]

\* -------------------------------------------------------------------- state
VARIABLES
  trackedFaces,       \* trackedFacesRef.current
  nextFaceId,         \* nextFaceIdRef.current
  lastDetectionTime,  \* lastDetectionTimeRef.current, the now of the last cycle
  displayFaces,       \* the displayFaces state of the hook
  appTracks,          \* App.tsx: trackedFacesRef.current
  appDisplay,         \* App.tsx: displayFaces
  appInput,           \* App.tsx: prunedTracks as the last sort received it
  appCycles,          \* App.tsx: the number of times steps 4 and 5 ran
  \* what the last cycle did, recorded for the properties
  prevTracks,         \* trackedFacesRef.current before the last cycle
  prevTime,           \* lastDetectionTime before the last cycle
  lastDets,           \* currentBoxes of the last cycle
  claims,             \* claims[i]: the detection prevTracks[i] adopted, 0 = none
  newIds,             \* the ids created in the last cycle, in creation order
  prevIds,            \* the ids created before the last cycle
  gone,               \* the tracks evicted so far: id, box and lastSeen at eviction
  smooth,             \* one detection per cycle so far: "strict", "within" or "no"
  cycles,             \* the number of cycles run
  appNextId,          \* App.tsx: nextFaceIdRef.current
  appNow,             \* App.tsx: the performance.now() of the last loop
  appLog,             \* App.tsx: the detections and the now of every loop so far
  passedIn,           \* the array handed to the last updateTrackedFaces, read after the call
  updated,            \* updatedTracks as the last updateTrackedFaces returned it
  prevNextId,         \* nextFaceIdRef.current before the last cycle
  signal,             \* what the last call raised: "none" or "RangeError"
  call,               \* the last call made to faceMatching.ts, and its numSlots
  picked,             \* what the last assignRandomSlot returned, NoSlot = undefined
  freed,              \* SpecReuse: the slots that evictions had left empty before the last cycle
  \* the effect of useFaceTracking and what drives it
  isVideoReady,       \* the prop of the last render
  isModelReady,       \* the prop of the last render
  mounted,            \* the component that calls the hook is mounted
  deps,               \* <<isVideoReady, isModelReady>> of every run of the effect, oldest first
  destroy,            \* the loop whose cleanup React holds, 0 = the effect returned nothing
  loops,              \* one closure per effect run that passed line 30: isRunning, animationFrameId
  callbacks,          \* the browser's list of animation frame callbacks: handle and loop
  nextHandle,         \* the handle the next requestAnimationFrame returns
  clock,              \* performance.now()
  lastFrame,          \* the last call of trackingLoop: its loop, its now, whether it ran a cycle
  \* the face detector of the vision service
  faceDetector,       \* the module variable: Null or the detector
  detectorCall        \* how the last detectFaces ended: "none" before the first call

vars == <<trackedFaces, nextFaceId, lastDetectionTime, displayFaces, appTracks,
          appDisplay, appInput, appCycles, prevTracks, prevTime, lastDets, claims, newIds, prevIds,
          gone, smooth, cycles, appNextId, appNow, appLog, passedIn, updated, prevNextId, signal, call, picked, freed,
          isVideoReady, isModelReady, mounted, deps, destroy, loops, callbacks, nextHandle,
          clock, lastFrame, faceDetector, detectorCall>>

appVars == <<appTracks, appDisplay, appInput, appCycles, appNextId, appNow, appLog>>
trackingVars == <<trackedFaces, nextFaceId, lastDetectionTime, displayFaces,
                  prevTracks, prevTime, lastDets, claims, newIds, prevIds, gone,
                  smooth, cycles, passedIn, updated, prevNextId, signal, call, picked, freed>>
effectVars == <<isVideoReady, isModelReady, mounted, deps, destroy, loops, callbacks,
                nextHandle, clock, lastFrame>>
detectorVars == <<faceDetector, detectorCall>>
hookVars == <<trackingVars, effectVars, detectorVars>>

\* the vision service after the module is loaded
DetectorInit ==
  /\ faceDetector = Null
  /\ detectorCall = "none"

\* the component is mounted, neither prop is true yet, the effect has not run
EffectInit ==
  /\ isVideoReady = FALSE
  /\ isModelReady = FALSE
  /\ mounted = TRUE
  /\ deps = <<>>
  /\ destroy = 0
  /\ loops = <<>>
  /\ callbacks = {}
  /\ nextHandle = 1
  /\ clock = 0
  /\ lastFrame = [loop |-> 0, now |-> 0, cycle |-> FALSE]

\* the refs and the state of useFaceTracking after the first render
HookInit ==
  /\ trackedFaces = <<>>
  /\ nextFaceId = 0
  /\ lastDetectionTime = 0
  /\ displayFaces = [i \in 1..NumSlots |-> Null]
  /\ prevTracks = <<>>
  /\ prevTime = 0
  /\ lastDets = <<>>
  /\ claims = <<>>
  /\ newIds = <<>>
  /\ prevIds = {}
  /\ gone = {}
  /\ smooth = "strict"
  /\ cycles = 0
  /\ passedIn = <<>>
  /\ updated = <<>>
  /\ prevNextId = 0
  /\ signal = "none"
  /\ call = [op |-> "none", numSlots |-> NumSlots]
  /\ picked = NoSlot
  /\ freed = {}
  /\ EffectInit
  /\ DetectorInit

\* the refs and the state of App.tsx after the first render
AppInit ==
  /\ appTracks = <<>>
  /\ appDisplay = [i \in 1..NumSlots |-> Null]
  /\ appInput = <<>>
  /\ appCycles = 0
  /\ appNextId = 0
  /\ appNow = 0
  /\ appLog = <<>>

Init == HookInit /\ AppInit

\* nextFaceIdRef.current = newNextId
StoreNextIdForgotten(old, newNextId) == old

StoreNextId(old, newNextId) == newNextId

\* the history of one detection per cycle, each within the threshold of the
\* one before and less than the stale timeout after it
NextSmooth(dets, now) ==
  IF smooth = "no" \/ Len(dets) # 1 THEN "no"
  ELSE IF cycles = 0 THEN smooth
  ELSE IF Len(lastDets) # 1 \/ now - lastDetectionTime >= STALE_TRACK_TIMEOUT THEN "no"
  ELSE LET d == calculateFaceDistance(dets[1], lastDets[1])
           limit == 4 * MATCH_DISTANCE_THRESHOLD * MATCH_DISTANCE_THRESHOLD
       IN  IF d < limit THEN smooth
           ELSE IF d = limit THEN "within"
           ELSE "no"

\* lines 46-70 of trackingLoop: update the tracks, then assign the slots; one
\* outcome for every sequence of draws of the shuffle
DetectionCycle(currentBoxes, tracks, nextId, now) ==
  LET Outcomes(s, r) ==
        LET base == [newNextId |-> r.newNextId,
                     claims |-> s.claims,
                     newIds |-> [i \in 1..Len(s.created) |-> s.created[i].id],
                     evicted |-> {[id |-> s.activeTracks[i].id,
                                   data |-> s.activeTracks[i].data,
                                   lastSeen |-> s.activeTracks[i].lastSeen] :
                                    i \in {j \in 1..Len(s.activeTracks) :
                                             ~IsFresh(s.activeTracks[j], now)}},
                     passedIn |-> PassedIn(s.activeTracks, tracks),
                     updated |-> r.updatedTracks]
        IN  {[b EXCEPT !.rnd = rnd] :
               b \in {base @@ [rnd |-> <<>>]},
               rnd \in RandomDraws(Len(getAvailableSlots(r.updatedTracks, NumSlots)))}
  IN  UNION {Outcomes(s, r) :
               s \in {TrackerSteps(currentBoxes, tracks, nextId, now)},
               r \in {updateTrackedFaces(currentBoxes, tracks, nextId, now)}}

\* the positions of prevTracks whose track the last cycle evicted
Evicted == {i \in 1..Len(prevTracks) : prevTracks[i].id \notin Ids(trackedFaces)}

\* the slots that the tracks of a TrackSet hold
SlotsHeld(tracks) == {tracks[i].slotIndex : i \in 1..Len(tracks)} \ {NoSlot}

\* the throttled block of trackingLoop: one detection cycle at time now
DetectionDueAlways(now) == TRUE

\* the throttle of line 43
DetectionDue(now) == now - lastDetectionTime >= DETECTION_INTERVAL

runDetection(currentBoxes, now) ==
  /\ DetectionDue(now)
  /\ \E out \in DetectionCycle(currentBoxes, trackedFaces, nextFaceId, now) :
       /\ out.newNextId <= MaxId
       /\ trackedFaces' = AssignedTracks(out.updated, NumSlots, out.rnd)
       /\ nextFaceId' = StoreNextId(nextFaceId, out.newNextId)
       /\ displayFaces' = assignFacesToSlots(out.updated, NumSlots, out.rnd)
       /\ claims' = out.claims
       /\ newIds' = out.newIds
       /\ gone' = gone \cup out.evicted
       /\ passedIn' = out.passedIn
       /\ updated' = out.updated
  /\ prevNextId' = nextFaceId
  /\ signal' = "none"
  /\ call' = [op |-> "assign", numSlots |-> NumSlots]
  /\ picked' = picked
  /\ lastDetectionTime' = now
  /\ prevTracks' = trackedFaces
  /\ prevTime' = lastDetectionTime
  /\ lastDets' = currentBoxes
  /\ prevIds' = prevIds \cup Range(newIds)
  /\ smooth' = NextSmooth(currentBoxes, now)
  /\ cycles' = cycles + 1
  /\ UNCHANGED appVars

\* one animation frame of trackingLoop that runs a detection cycle
trackingLoop(currentBoxes, now) ==
  /\ cycles < MaxCycles
  /\ runDetection(currentBoxes, now)
  /\ UNCHANGED freed
  /\ UNCHANGED <<effectVars, detectorVars>>

Next ==
  \E currentBoxes \in DetectionLists :
    \E step \in Steps :
      trackingLoop(currentBoxes, lastDetectionTime + step)

Spec == Init /\ [][Next]_vars

\* ------------------------------------------- the arrival-order steps alone
\* Steps 4 and 5 of the App.tsx loop as a function of prunedTracks: the input
\* is any arrangement of tracks with distinct ids of ArrivalIds.
ArrivalIds == {3, 7, 9, 12}
ArrivalBoxes == {BoxA, BoxB}

ArrivalInputs ==
  {t \in UNION {[1..n -> [id : ArrivalIds, data : ArrivalBoxes, lastSeen : {0}]] :
                  n \in 0..Cardinality(ArrivalIds)} :
     \A i, j \in 1..Len(t) : i # j => t[i].id # t[j].id}

InitArrival ==
  /\ HookInit
  /\ appTracks \in ArrivalInputs
  /\ appDisplay = [i \in 1..NumSlots |-> Null]
  /\ appInput = <<>>
  /\ appCycles = 0
  /\ appNextId = 0
  /\ appNow = 0
  /\ appLog = <<>>

arrivalOrder ==
  /\ appCycles = 0
  /\ appInput' = appTracks
  /\ appTracks' = SortById(appTracks)
  /\ appDisplay' = ArrivalOrderSlots(appTracks)
  /\ appCycles' = appCycles + 1
  /\ UNCHANGED <<appNextId, appNow, appLog>>
  /\ UNCHANGED hookVars

NextArrival == arrivalOrder

SpecArrival == InitArrival /\ [][NextArrival]_vars

\* ------------------------------------------ the two functions called alone
\* faceMatching.ts exports updateTrackedFaces and assignFacesToSlots; here a
\* caller keeps the TrackSet and the next id between the calls and passes
\* any time and any number of slots.
CallTimes == {100, 600}
CallLists == {<<>>, <<BoxA>>, <<BoxA, BoxC>>}
CallSlots == -1..NumSlots

\* a call of updateTrackedFaces whose caller stores what it returns
runUpdate(currentDetections, currentTime) ==
  /\ cycles < MaxCycles
  /\ \E s \in {TrackerSteps(currentDetections, trackedFaces, nextFaceId, currentTime)},
        r \in {updateTrackedFaces(currentDetections, trackedFaces, nextFaceId, currentTime)} :
       /\ r.newNextId <= MaxId
       /\ trackedFaces' = r.updatedTracks
       /\ nextFaceId' = r.newNextId
       /\ updated' = r.updatedTracks
       /\ passedIn' = PassedIn(s.activeTracks, trackedFaces)
       /\ claims' = s.claims
       /\ newIds' = [i \in 1..Len(s.created) |-> s.created[i].id]
  /\ prevTracks' = trackedFaces
  /\ prevNextId' = nextFaceId
  /\ prevTime' = lastDetectionTime
  /\ lastDetectionTime' = currentTime
  /\ lastDets' = currentDetections
  /\ signal' = "none"
  /\ call' = [op |-> "update", numSlots |-> call.numSlots]
  /\ cycles' = cycles + 1
  /\ UNCHANGED <<displayFaces, prevIds, gone, smooth, picked, freed>>
  /\ UNCHANGED <<effectVars, detectorVars>>

updateCall(currentDetections, currentTime) ==
  /\ runUpdate(currentDetections, currentTime)
  /\ UNCHANGED appVars

assignCall(numSlots) ==
  /\ cycles < MaxCycles
  /\ IF ArrayLengthValid(numSlots)
     THEN \E rnd \in RandomDraws(Len(getAvailableSlots(trackedFaces, numSlots))) :
            /\ trackedFaces' = AssignedTracks(trackedFaces, numSlots, rnd)
            /\ displayFaces' = assignFacesToSlots(trackedFaces, numSlots, rnd)
            /\ signal' = "none"
     ELSE /\ signal' = "RangeError"
          /\ UNCHANGED <<trackedFaces, displayFaces>>
  /\ updated' = trackedFaces
  /\ call' = [op |-> "assign", numSlots |-> numSlots]
  /\ cycles' = cycles + 1
  /\ UNCHANGED <<nextFaceId, lastDetectionTime, prevTracks, prevTime, lastDets, claims,
                 newIds, prevIds, gone, smooth, passedIn, prevNextId, picked, freed>>
  /\ UNCHANGED <<effectVars, detectorVars>>
  /\ UNCHANGED appVars

\* assignRandomSlot returns a slot for a new face and writes nothing
randomSlotCall(numSlots) ==
  /\ cycles < MaxCycles
  /\ \E randomIndex \in RandomIndexes(Len(getAvailableSlots(trackedFaces, numSlots))) :
       picked' = assignRandomSlot(trackedFaces, numSlots, randomIndex)
  /\ updated' = trackedFaces
  /\ signal' = "none"
  /\ call' = [op |-> "assignRandomSlot", numSlots |-> numSlots]
  /\ cycles' = cycles + 1
  /\ UNCHANGED <<trackedFaces, displayFaces, nextFaceId, lastDetectionTime, prevTracks,
                 prevTime, lastDets, claims, newIds, prevIds, gone, smooth, passedIn,
                 prevNextId, freed>>
  /\ UNCHANGED <<effectVars, detectorVars>>
  /\ UNCHANGED appVars

NextCore ==
  \/ \E currentDetections \in CallLists :
       \E currentTime \in CallTimes : updateCall(currentDetections, currentTime)
  \/ \E numSlots \in CallSlots : assignCall(numSlots)
  \/ \E numSlots \in CallSlots : randomSlotCall(numSlots)

SpecCore == Init /\ [][NextCore]_vars

\* ------------------------------------------------- contested detections
\* The same loop over two faces that start at one place and drift apart, so
\* that one detection is the nearest for two tracks.
GreedyLists == {<<BoxA, BoxA>>, <<BoxA2>>, <<BoxA2, BoxB>>, <<BoxB, BoxA2>>}

greedyLoop(currentBoxes, now) ==
  /\ cycles < MaxCycles
  /\ runDetection(currentBoxes, now)
  /\ UNCHANGED freed
  /\ UNCHANGED <<effectVars, detectorVars>>

NextGreedy ==
  \E currentBoxes \in GreedyLists :
    \E step \in Steps :
      greedyLoop(currentBoxes, lastDetectionTime + step)

SpecGreedy == Init /\ [][NextGreedy]_vars

\* ------------------------------------------ a TrackSet passed in any order
\* updateTrackedFaces called on up to three tracks with the ids 0, 1 and 2 in
\* any order, and then on what it returned.
UnorderedBox(id) == IF id = 0 THEN BoxA ELSE IF id = 1 THEN BoxC ELSE BoxB

UnorderedInputs ==
  {[i \in 1..Len(q) |-> TrackedFace(q[i], UnorderedBox(q[i]), 100, NoSlot)] :
     q \in {r \in UNION {[1..n -> 0..2] : n \in 0..3} :
              \A i, j \in 1..Len(r) : i # j => r[i] # r[j]}}

InitUnordered ==
  /\ AppInit
  /\ trackedFaces \in UnorderedInputs
  /\ nextFaceId = 3
  /\ lastDetectionTime = 100
  /\ displayFaces = [i \in 1..NumSlots |-> Null]
  /\ prevTracks = <<>>
  /\ prevTime = 0
  /\ lastDets = <<>>
  /\ claims = <<>>
  /\ newIds = <<>>
  /\ prevIds = {}
  /\ gone = {}
  /\ smooth = "strict"
  /\ cycles = 0
  /\ passedIn = <<>>
  /\ updated = <<>>
  /\ prevNextId = 3
  /\ signal = "none"
  /\ call = [op |-> "none", numSlots |-> NumSlots]
  /\ picked = NoSlot
  /\ freed = {}
  /\ EffectInit
  /\ DetectorInit

NextUnordered ==
  \E currentDetections \in CallLists :
    \E currentTime \in CallTimes : updateCall(currentDetections, currentTime)

SpecUnordered == InitUnordered /\ [][NextUnordered]_vars

\* ------------------------------------------------ slots freed by eviction
\* The same loop over faces that come and go at two places, with the record
\* of the slots that evictions have emptied.
ReuseLists == {<<>>, <<BoxA>>, <<BoxC>>, <<BoxA, BoxA>>, <<BoxA, BoxC>>}

reuseLoop(currentBoxes, now) ==
  /\ cycles < MaxCycles
  /\ runDetection(currentBoxes, now)
  /\ freed' = (freed \cup {prevTracks[i].slotIndex : i \in Evicted}) \ SlotsHeld(trackedFaces)
  /\ UNCHANGED <<effectVars, detectorVars>>

NextReuse ==
  \E currentBoxes \in ReuseLists :
    \E step \in Steps :
      reuseLoop(currentBoxes, lastDetectionTime + step)

SpecReuse == Init /\ [][NextReuse]_vars

\* ------------------------------------------- frames without any detection
\* The hook from a TrackSet it can hold at time 150 (one or two tracks last
\* seen at 50, 100 or 150, each in a slot of its own), when detectFaces
\* returns [] in every later frame.
AgeingSeen == {50, 100, 150}

AgeingInputs ==
  {<<>>}
  \cup {<<TrackedFace(0, BoxA, t0, s0)>> : t0 \in AgeingSeen, s0 \in 0..NumSlots - 1}
  \cup {<<TrackedFace(0, BoxA, t[1], sl[1]), TrackedFace(1, BoxC, t[2], sl[2])>> :
          t \in AgeingSeen \X AgeingSeen,
          sl \in {q \in (0..NumSlots - 1) \X (0..NumSlots - 1) : q[1] # q[2]}}

InitAgeing ==
  /\ AppInit
  /\ trackedFaces \in AgeingInputs
  /\ nextFaceId = 2
  /\ lastDetectionTime = 150
  /\ displayFaces = [k \in 1..NumSlots |->
        IF \E i \in 1..Len(trackedFaces) : trackedFaces[i].slotIndex = k - 1
        THEN trackedFaces[CHOOSE i \in 1..Len(trackedFaces) :
                            trackedFaces[i].slotIndex = k - 1].data
        ELSE Null]
  /\ prevTracks = <<>>
  /\ prevTime = 0
  /\ lastDets = <<>>
  /\ claims = <<>>
  /\ newIds = <<>>
  /\ prevIds = {}
  /\ gone = {}
  /\ smooth = "strict"
  /\ cycles = 0
  /\ passedIn = <<>>
  /\ updated = <<>>
  /\ prevNextId = 2
  /\ signal = "none"
  /\ call = [op |-> "none", numSlots |-> NumSlots]
  /\ picked = NoSlot
  /\ freed = {}
  /\ EffectInit
  /\ DetectorInit

\* a frame of trackingLoop in which detectFaces returns []
emptyFrame(now) ==
  /\ trackedFaces # <<>> \/ lastDetectionTime < MaxTime
  /\ runDetection(<<>>, now)
  /\ UNCHANGED freed
  /\ UNCHANGED <<effectVars, detectorVars>>

NextAgeing == \E step \in Steps : emptyFrame(lastDetectionTime + step)

\* requestAnimationFrame(trackingLoop) ends every frame, so frames keep coming
SpecAgeing == InitAgeing /\ [][NextAgeing]_vars /\ WF_vars(NextAgeing)

\* ------------------------------------------------- the tracker of App.tsx
\* App.tsx keeps its own copy of the five steps, with the numbers written out
AppTrackedFace(id, data, lastSeen) == [id |-> id, data |-> data, lastSeen |-> lastSeen]

\* the times performance.now() returns, and the detections of a loop
AppTimes == {0, 20, 600}
AppDetectionLists == {<<>>, <<BoxA>>, <<BoxA2>>, <<BoxB>>, <<BoxA, BoxC>>}

\* Math.hypot(tx - bx, ty - by), as 4 * distance^2
AppDist(track, box) ==
  LET tx == 2 * track.data.x + track.data.width
      ty == 2 * track.data.y + track.data.height
      bx == 2 * box.x + box.width
      by == 2 * box.y + box.height
  IN  (tx - bx) * (tx - bx) + (ty - by) * (ty - by)

\* bestIdx of the inner forEach: the first unused box of minimal distance, 0 = -1
AppBestIdx(track, currentBoxes, usedBoxes) ==
  LET cand == {i \in 1..Len(currentBoxes) : i \notin usedBoxes}
  IN  IF cand = {} THEN 0
      ELSE CHOOSE i \in cand :
             \A j \in cand : \/ AppDist(track, currentBoxes[i]) < AppDist(track, currentBoxes[j])
                             \/ /\ AppDist(track, currentBoxes[i]) = AppDist(track, currentBoxes[j])
                                /\ i <= j

\* minDist < 200
AppMatchesInclusive(minDist) == minDist <= 4 * 200 * 200

AppMatches(minDist) == minDist < 4 * 200 * 200

\* track.data = currentBoxes[bestIdx]; track.lastSeen = now
AppAdoptStale(track, box, t) == [track EXCEPT !.data = box]

AppAdopt(track, box, t) == [track EXCEPT !.data = box, !.lastSeen = t]

\* step 1 of the loop
RECURSIVE AppMatchPass(_, _, _, _)
AppMatchPass(currentBoxes, tracks, t, acc) ==
  LET i == Len(acc.tracks) + 1
      bestIdx == AppBestIdx(tracks[i], currentBoxes, acc.usedBoxes)
  IN  IF i > Len(tracks) THEN acc
      ELSE IF bestIdx # 0 /\ AppMatches(AppDist(tracks[i], currentBoxes[bestIdx]))
      THEN AppMatchPass(currentBoxes, tracks, t,
             [tracks |-> Append(acc.tracks, AppAdopt(tracks[i], currentBoxes[bestIdx], t)),
              usedBoxes |-> acc.usedBoxes \cup {bestIdx}])
      ELSE AppMatchPass(currentBoxes, tracks, t,
             [tracks |-> Append(acc.tracks, tracks[i]), usedBoxes |-> acc.usedBoxes])

\* the value of nextFaceIdRef.current++ at its k-th evaluation of a loop, k from 0
AppNewIdNoIncrement(nextId, k) == nextId

AppNewId(nextId, k) == nextId + k

\* step 2 of the loop: one track per unused box, in the order of the boxes
AppNewTracks(currentBoxes, usedBoxes, nextId, t) ==
  LET unusedIdx == {i \in 1..Len(currentBoxes) : i \notin usedBoxes}
      nth(k) == CHOOSE i \in unusedIdx : Cardinality({j \in unusedIdx : j < i}) = k - 1
  IN  [k \in 1..Cardinality(unusedIdx) |->
         AppTrackedFace(AppNewId(nextId, k - 1), currentBoxes[nth(k)], t)]

\* step 3 of the loop: (now - t.lastSeen) < 500
AppPrune(activeTracks, t) ==
  LET Keep(track) == (t - track.lastSeen) < 500
  IN  SelectSeq(activeTracks, Keep)

\* steps 1 to 5 of one loop
AppCycle(currentBoxes, tracks, nextId, t) ==
  LET m == AppMatchPass(currentBoxes, tracks, t, [tracks |-> <<>>, usedBoxes |-> {}])
      created == AppNewTracks(currentBoxes, m.usedBoxes, nextId, t)
      prunedTracks == SortById(AppPrune(m.tracks \o created, t))
  IN  [prunedTracks |-> prunedTracks,
       nextId |-> AppNewId(nextId, Len(created)),
       newDisplayFaces |-> ArrivalOrderSlots(prunedTracks)]

\* the body of loop: what one animation frame of App.tsx does
runLoop(currentBoxes, t) ==
  /\ appCycles < MaxCycles
  /\ t >= appNow
  /\ \E out \in {AppCycle(currentBoxes, appTracks, appNextId, t)} :
       /\ out.nextId <= MaxId
       /\ appTracks' = out.prunedTracks
       /\ appNextId' = out.nextId
       /\ appDisplay' = out.newDisplayFaces
  /\ appInput' = appTracks
  /\ appNow' = t
  /\ appLog' = Append(appLog, [detections |-> currentBoxes, now |-> t])
  /\ appCycles' = appCycles + 1

loop(currentBoxes, t) ==
  /\ runLoop(currentBoxes, t)
  /\ UNCHANGED hookVars

NextApp == \E currentBoxes \in AppDetectionLists : \E t \in AppTimes : loop(currentBoxes, t)

SpecApp == Init /\ [][NextApp]_vars

\* ------------------------------------------- the effect of useFaceTracking
\* React renders the hook with new props, runs the effect when a dependency
\* changed (the cleanup of the previous run first), and the browser calls the
\* animation frame callbacks. Every step below is one JavaScript task: none
\* can start while another is running.
MaxFrames == 5     \* calls of requestAnimationFrame
MaxEffects == 4    \* runs of the effect

FrameSteps == {1, DETECTION_INTERVAL - 1}
FrameLists == {<<>>, <<BoxA>>}

\* line 30, negated: the effect goes on to start a loop
EffectGuard(video, model) == ~(~video \/ ~model)

StopLoopNothing(ls, k) == ls

\* isRunning = false of the cleanup
StopLoop(ls, k) == [ls EXCEPT ![k].isRunning = FALSE]

\* cancelAnimationFrame under if (animationFrameId); 0 stands for undefined
CancelFrame(cbs, animationFrameId) ==
  IF animationFrameId # 0
  THEN {c \in cbs : c.handle # animationFrameId}
  ELSE cbs

\* what the cleanup held by React leaves of loops and callbacks
CleanedLoops == IF destroy = 0 THEN loops ELSE StopLoop(loops, destroy)
CleanedCallbacks ==
  IF destroy = 0 THEN callbacks ELSE CancelFrame(callbacks, loops[destroy].animationFrameId)

\* the dependencies of the last run of the effect, <<>> before the first
LastDeps == IF deps = <<>> THEN <<>> ELSE deps[Len(deps)]

\* one call of trackingLoop by loop k at time t, with ls and cbs what its
\* caller leaves of loops and callbacks; ready is video && readyState >= 2
iteration(ls, cbs, k, t, ready, currentBoxes) ==
  /\ clock' = t
  /\ IF ~ls[k].isRunning
     THEN /\ loops' = ls
          /\ callbacks' = cbs
          /\ lastFrame' = [loop |-> k, now |-> t, cycle |-> FALSE]
          /\ UNCHANGED nextHandle
          /\ UNCHANGED <<trackingVars, appVars>>
     ELSE /\ nextHandle <= MaxFrames
          /\ IF ready /\ DetectionDue(t)
             THEN /\ cycles < MaxCycles
                  /\ runDetection(currentBoxes, t)
                  /\ UNCHANGED freed
             ELSE UNCHANGED <<trackingVars, appVars>>
          /\ lastFrame' = [loop |-> k, now |-> t, cycle |-> ready /\ DetectionDue(t)]
          /\ loops' = [ls EXCEPT ![k].animationFrameId = nextHandle]
          /\ callbacks' = cbs \cup {[handle |-> nextHandle, loop |-> k]}
          /\ nextHandle' = nextHandle + 1

\* the parent renders the hook with other props; React has flushed the
\* effect of the previous render by then
render(video, model) ==
  /\ mounted
  /\ LastDeps = <<isVideoReady, isModelReady>>
  /\ <<video, model>> # <<isVideoReady, isModelReady>>
  /\ Len(deps) < MaxEffects
  /\ isVideoReady' = video
  /\ isModelReady' = model
  /\ UNCHANGED <<mounted, deps, destroy, loops, callbacks, nextHandle, clock, lastFrame>>
  /\ UNCHANGED detectorVars
  /\ UNCHANGED <<trackingVars, appVars>>

\* React runs the effect: after mount and after a render that changed a
\* dependency, the cleanup of the previous run first
useEffect(step, ready, currentBoxes) ==
  /\ mounted
  /\ LastDeps # <<isVideoReady, isModelReady>>
  /\ deps' = Append(deps, <<isVideoReady, isModelReady>>)
  /\ IF EffectGuard(isVideoReady, isModelReady)
     THEN /\ destroy' = Len(loops) + 1
          /\ iteration(Append(CleanedLoops, [isRunning |-> TRUE, animationFrameId |-> 0]),
                       CleanedCallbacks, Len(loops) + 1, clock + step, ready, currentBoxes)
     ELSE /\ destroy' = 0
          /\ loops' = CleanedLoops
          /\ callbacks' = CleanedCallbacks
          /\ UNCHANGED <<nextHandle, clock, lastFrame>>
          /\ UNCHANGED <<trackingVars, appVars>>
  /\ UNCHANGED <<isVideoReady, isModelReady, mounted>>
  /\ UNCHANGED detectorVars

\* the browser calls one animation frame callback
animationFrame(c, step, ready, currentBoxes) ==
  /\ c \in callbacks
  /\ iteration(loops, callbacks \ {c}, c.loop, clock + step, ready, currentBoxes)
  /\ UNCHANGED <<isVideoReady, isModelReady, mounted, deps, destroy>>
  /\ UNCHANGED detectorVars

\* the component unmounts: React runs the cleanup it holds
unmount ==
  /\ mounted
  /\ deps # <<>>
  /\ mounted' = FALSE
  /\ destroy' = 0
  /\ loops' = CleanedLoops
  /\ callbacks' = CleanedCallbacks
  /\ UNCHANGED <<isVideoReady, isModelReady, deps, nextHandle, clock, lastFrame>>
  /\ UNCHANGED detectorVars
  /\ UNCHANGED <<trackingVars, appVars>>

NextEffect ==
  \/ \E video \in BOOLEAN : \E model \in BOOLEAN : render(video, model)
  \/ \E step \in FrameSteps : \E ready \in BOOLEAN : \E currentBoxes \in FrameLists :
       useEffect(step, ready, currentBoxes)
  \/ \E c \in callbacks : \E step \in FrameSteps : \E ready \in BOOLEAN :
       \E currentBoxes \in FrameLists : animationFrame(c, step, ready, currentBoxes)
  \/ unmount

SpecEffect == Init /\ [][NextEffect]_vars

\* ------------------------------------------------- the detector failing
\* The cycle of trackingLoop with detectFaces in it: the detector may not be
\* there yet, and detectForVideo may throw or return detections.
Detection(box) ==
  [boundingBox |-> [originX |-> box.x, originY |-> box.y,
                    width |-> box.width, height |-> box.height]]

DetectorLists == {<<Detection(BoxA)>>, <<Detection(BoxA), Detection(BoxC)>>}

\* what a call of detectForVideo can do
DetectorOutcomes ==
  {[throws |-> TRUE, detections |-> <<>>]} \cup
  {[throws |-> FALSE, detections |-> d] : d \in DetectorLists}

detectFacesUncaught(detector, outcome) ==
  IF outcome.throws
  THEN [thrown |-> TRUE, detections |-> <<>>, ended |-> "threw"]
  ELSE [thrown |-> FALSE, detections |-> outcome.detections, ended |-> "returned"]

\* detectFaces: what it returns, whether it throws, and the path it took
detectFaces(detector, outcome) ==
  IF detector = Null
  THEN [thrown |-> FALSE, detections |-> <<>>, ended |-> "notInitialized"]
  ELSE IF outcome.throws
       THEN [thrown |-> FALSE, detections |-> <<>>, ended |-> "threw"]
       ELSE [thrown |-> FALSE, detections |-> outcome.detections, ended |-> "returned"]

\* lines 50-55: detections.map to FaceBox
FaceBoxes(detections) ==
  [i \in 1..Len(detections) |->
     Box(detections[i].boundingBox.originX, detections[i].boundingBox.originY,
         detections[i].boundingBox.width, detections[i].boundingBox.height)]

\* the detector that FaceDetector.createFromOptions makes
FaceDetector == [null |-> FALSE]

\* initializeFaceDetector resolves
initializeFaceDetector ==
  /\ faceDetector = Null
  /\ faceDetector' = FaceDetector
  /\ UNCHANGED detectorCall
  /\ UNCHANGED <<trackingVars, effectVars, appVars>>

\* lines 43-71 of trackingLoop with the call of detectFaces; an exception
\* out of detectFaces would leave the block after line 44
detectionCycle(outcome, t) ==
  /\ cycles < MaxCycles
  /\ DetectionDue(t)
  /\ \E r \in {detectFaces(faceDetector, outcome)} :
       /\ detectorCall' = r.ended
       /\ IF r.thrown
          THEN /\ lastDetectionTime' = t
               /\ signal' = "Error"
               /\ cycles' = cycles + 1
               /\ UNCHANGED <<trackedFaces, nextFaceId, displayFaces, prevTracks, prevTime,
                              lastDets, claims, newIds, prevIds, gone, smooth, passedIn,
                              updated, prevNextId, call, picked>>
               /\ UNCHANGED appVars
          ELSE runDetection(FaceBoxes(r.detections), t)
  /\ UNCHANGED <<freed, faceDetector>>
  /\ UNCHANGED effectVars

NextDetector ==
  \/ initializeFaceDetector
  \/ \E outcome \in DetectorOutcomes : \E step \in Steps :
       detectionCycle(outcome, lastDetectionTime + step)

SpecDetector == Init /\ [][NextDetector]_vars

\* ------------------------------------------------ the two trackers abreast
\* The loop of App.tsx and updateTrackedFaces, each with its own TrackSet and
\* next id, given the same detections and the same now frame after frame.
sideBySide(currentBoxes, t) ==
  /\ runLoop(currentBoxes, t)
  /\ runUpdate(currentBoxes, t)

NextPair ==
  \E currentBoxes \in AppDetectionLists : \E t \in AppTimes : sideBySide(currentBoxes, t)

SpecPair == Init /\ [][NextPair]_vars

\* ------------------------------------------------------------------ claims
now == lastDetectionTime

\* the positions of trackedFaces that hold the track id
At(id) == {j \in 1..Len(trackedFaces) : trackedFaces[j].id = id}

\* the track of prevTracks[i] is in the TrackSet the cycle returned
Survives(i) == prevTracks[i].id \in Ids(trackedFaces)

\* C1: every track created in a cycle gets an id above every id created
\* before, evicted tracks included, the ids created in one cycle increase in
\* creation order, and the ids of the TrackSet are pairwise distinct.
C1_IdsStrictlyIncrease ==
  /\ \A i \in 1..Len(newIds) : \A old \in prevIds : newIds[i] > old
  /\ \A i, j \in 1..Len(newIds) : i < j => newIds[i] < newIds[j]
  /\ \A i, j \in 1..Len(trackedFaces) :
       i # j => trackedFaces[i].id # trackedFaces[j].id

\* two tracks were created in one cycle after an earlier track was evicted
C1_Witness ==
  /\ Len(newIds) = 2
  /\ \E g \in gone : g.id \in prevIds

C3_StickySlot ==
  cycles > 0 =>
    \A i \in 1..Len(prevTracks) :
      prevTracks[i].slotIndex # NoSlot =>
        \A j \in At(prevTracks[i].id) :
          /\ trackedFaces[j].slotIndex = prevTracks[i].slotIndex
          /\ displayFaces[prevTracks[i].slotIndex + 1] = trackedFaces[j].data

\* a track keeps its slot with a new box in a cycle that evicts a track with
\* a slot and creates a track
C3_Witness ==
  /\ Len(newIds) > 0
  /\ \E i, e \in 1..Len(prevTracks) :
       /\ prevTracks[i].slotIndex # NoSlot /\ Survives(i)
       /\ \E j \in At(prevTracks[i].id) : trackedFaces[j].data # prevTracks[i].data
       /\ prevTracks[e].slotIndex # NoSlot /\ ~Survives(e)

\* C4: no two tracks of the TrackSet hold the same slot.
C4_OneTrackPerSlot ==
  \A i, j \in 1..Len(trackedFaces) :
    (i # j /\ trackedFaces[i].slotIndex # NoSlot) =>
      trackedFaces[i].slotIndex # trackedFaces[j].slotIndex

\* every slot is held, by tracks of which one took the slot of an evicted track
C4_Witness ==
  /\ {trackedFaces[j].slotIndex : j \in 1..Len(trackedFaces)} \ {NoSlot} = 0..(NumSlots - 1)
  /\ \E e \in 1..Len(prevTracks) :
       /\ ~Survives(e) /\ prevTracks[e].slotIndex # NoSlot
       /\ \E j \in 1..Len(trackedFaces) :
            /\ trackedFaces[j].slotIndex = prevTracks[e].slotIndex

\* the positions of trackedFaces that had no slot when the last assign began:
\* the survivors without a slot and the tracks the cycle created
Unassigned == {j \in 1..Len(trackedFaces) :
                 \/ trackedFaces[j].id \in Range(newIds)
                 \/ \E i \in 1..Len(prevTracks) :
                      /\ prevTracks[i].id = trackedFaces[j].id
                      /\ prevTracks[i].slotIndex = NoSlot}

\* the number of slots no track held when the last assign began
FreeSlots == NumSlots - (Len(trackedFaces) - Cardinality(Unassigned))

\* C5 as stated: a track without a slot before a cycle has none after it.
C5_SlotlessForLife ==
  cycles > 0 =>
    \A i \in 1..Len(prevTracks) :
      prevTracks[i].slotIndex = NoSlot =>
        \A j \in At(prevTracks[i].id) : trackedFaces[j].slotIndex = NoSlot

\* C5 amended: a track without a slot stays without one only while every slot
\* is held; each assign gives the free slots to the tracks without a slot in
\* TrackSet order (ascending id), so a slot freed by an eviction goes to the
\* oldest surviving track without a slot, before any track created later.
C5_SlotlessWhileFull ==
  cycles > 0 =>
    \A j \in Unassigned :
      trackedFaces[j].slotIndex # NoSlot
        <=> Cardinality({k \in Unassigned : k <= j}) <= FreeSlots

\* a track that had no slot takes the slot an evicted track held, in a cycle
\* that also creates a track, which gets no slot
C5_Witness ==
  /\ \E k \in 1..Len(newIds) :
       \E j \in At(newIds[k]) : trackedFaces[j].slotIndex = NoSlot
  /\ \E i, e \in 1..Len(prevTracks) :
       /\ prevTracks[i].slotIndex = NoSlot
       /\ prevTracks[e].slotIndex # NoSlot /\ ~Survives(e)
       /\ \E j \in At(prevTracks[i].id) :
            trackedFaces[j].slotIndex = prevTracks[e].slotIndex

C7_OneTrackPerDetection ==
  cycles > 0 =>
    LET claimed == {claims[i] : i \in 1..Len(claims)} \ {0}
        IsFree(d) == d \notin claimed
        free == SelectSeq([d \in 1..Len(lastDets) |-> d], IsFree)
    IN  /\ \A i, j \in 1..Len(claims) :
             (i # j /\ claims[i] # 0) => claims[i] # claims[j]
        /\ Len(newIds) = Len(free)
        /\ \A k \in 1..Len(newIds) :
             \A j \in At(newIds[k]) : trackedFaces[j].data = lastDets[free[k]]

\* a track is nearest to a detection that an earlier track has claimed and
\* adopts another one
C7_Witness ==
  \E i, j \in 1..Len(claims) :
    /\ i < j /\ claims[i] # 0 /\ claims[j] # 0
    /\ BestDetection(prevTracks[j], lastDets, {}) = claims[i]

\* C8 as stated: a track that went unmatched in a cycle and whose last match
\* is at least staleTimeout back does not adopt a detection that reappears
\* where the track is.
C8_RecreatedAfterGap ==
  cycles > 0 =>
    \A i \in 1..Len(prevTracks) :
      (/\ prevTracks[i].lastSeen < prevTime
       /\ now - prevTracks[i].lastSeen >= STALE_TRACK_TIMEOUT) =>
        \A d \in 1..Len(lastDets) :
          lastDets[d] = prevTracks[i].data => claims[i] # d

\* C8 amended: once an update has evicted a track, a detection that reappears
\* where the track was is never matched to it: the track that holds the
\* detection has another id, and an id above it when the cycle created it.
C8_NewIdAfterEviction ==
  cycles > 0 =>
    \A g \in gone :
      \A j \in 1..Len(trackedFaces) :
        (trackedFaces[j].data = g.data /\ trackedFaces[j].lastSeen = now) =>
          /\ trackedFaces[j].id # g.id
          /\ trackedFaces[j].id \in Range(newIds) => trackedFaces[j].id > g.id

\* a detection at the place of a track evicted in an earlier cycle has become
\* a new track
C8_Witness ==
  \E g \in gone :
    /\ g.lastSeen + STALE_TRACK_TIMEOUT <= prevTime
    /\ \E j \in 1..Len(trackedFaces) :
         /\ trackedFaces[j].data = g.data
         /\ trackedFaces[j].id \in Range(newIds)

\* the i-th smallest id of the tracks t
Ranked(t, i) ==
  CHOOSE k \in 1..Len(t) : Cardinality({m \in 1..Len(t) : t[m].id < t[k].id}) = i - 1

\* C9: whatever the order of the tracks, slot i shows the box of the track
\* with the (i+1)-th smallest id, and a slot beyond the number of tracks is
\* empty; the tracks beyond the first NumSlots ids are not shown.
C9_ArrivalOrder ==
  appCycles > 0 =>
    /\ Len(appDisplay) = NumSlots
    /\ \A i \in 1..NumSlots :
         appDisplay[i] = IF i <= Len(appInput)
                         THEN appInput[Ranked(appInput, i)].data
                         ELSE Null

\* the ids 3, 7 and 9 handed in as 9, 3, 7
C9_Witness ==
  /\ appCycles > 0
  /\ Len(appInput) = 3
  /\ appInput[1].id = 9 /\ appInput[2].id = 3 /\ appInput[3].id = 7
  /\ appDisplay[1] = appInput[2].data /\ appDisplay[3] = appInput[1].data

\* C10: a track that adopted a detection in a cycle, and every track the
\* cycle created, is in the TrackSet the cycle returns, with lastSeen = now.
C10_MatchedNeverEvicted ==
  cycles > 0 =>
    /\ \A i \in 1..Len(prevTracks) :
         claims[i] # 0 =>
           /\ Survives(i)
           /\ \A j \in At(prevTracks[i].id) : trackedFaces[j].lastSeen = now
    /\ \A k \in 1..Len(newIds) :
         /\ At(newIds[k]) # {}
         /\ \A j \in At(newIds[k]) : trackedFaces[j].lastSeen = now

\* a track whose last match is staleTimeout back is matched and kept, in a
\* cycle that evicts another track
C10_Witness ==
  \E i, e \in 1..Len(prevTracks) :
    /\ claims[i] # 0 /\ Survives(i)
    /\ now - prevTracks[i].lastSeen >= STALE_TRACK_TIMEOUT
    /\ ~Survives(e)


\* C11: updateTrackedFaces does not modify its inputs: after the call the
\* array that was passed in holds the same tracks in the same order, each with
\* the box and the lastSeen it had before the call.
C11_InputsUntouched ==
  cycles > 0 => passedIn = prevTracks


\* C12: in App.tsx, from an empty TrackSet: a loop at now = 0 with the one
\* detection {10,10,50,50} leaves exactly one track, id 0, and shows
\* [box, null, null]; a second loop at now = 20 with {12,11,50,50} keeps the
\* track id 0 with lastSeen = 20 and creates no track; a third loop at
\* now = 600 without detections evicts the track and shows [null, null, null].
ScenarioA == <<[detections |-> <<BoxA>>, now |-> 0]>>
ScenarioB == Append(ScenarioA, [detections |-> <<BoxA2>>, now |-> 20])
ScenarioC == Append(ScenarioB, [detections |-> <<>>, now |-> 600])

C12_ScenariosABC ==
  /\ appLog = ScenarioA =>
       /\ appTracks = <<AppTrackedFace(0, BoxA, 0)>>
       /\ appDisplay = <<BoxA, Null, Null>>
  /\ appLog = ScenarioB =>
       /\ appTracks = <<AppTrackedFace(0, BoxA2, 20)>>
       /\ appNextId = 1
  /\ appLog = ScenarioC =>
       /\ appTracks = <<>>
       /\ appDisplay = <<Null, Null, Null>>

C12_Witness == appLog = ScenarioC

\* C13: in App.tsx, from an empty TrackSet and next id 0, one loop with two
\* detections A, B farther apart than the threshold creates the tracks A:0 and
\* B:1 and shows A in slot 0 and B in slot 1.
C13_ScenarioD ==
  (Len(appLog) = 1 /\ appLog[1].detections = <<BoxA, BoxC>>) =>
     /\ Len(appTracks) = 2
     /\ appTracks[1].id = 0 /\ appTracks[1].data = BoxA
     /\ appTracks[2].id = 1 /\ appTracks[2].data = BoxC
     /\ appNextId = 2
     /\ appDisplay = <<BoxA, BoxC, Null>>

C13_Witness ==
  /\ Len(appLog) = 1
  /\ appLog[1].detections = <<BoxA, BoxC>>
  /\ ~AppMatches(AppDist(appTracks[1], BoxC))


\* C14: an update with an empty detection list creates no track, changes no
\* track's box or lastSeen and leaves the next id unchanged; the TrackSet is
\* empty after it exactly when now is at least the stale timeout past the
\* latest lastSeen; and when every detection list is empty from some cycle on,
\* the TrackSet eventually is empty and stays empty.
EmptyUpdate ==
  (cycles > 0 /\ lastDets = <<>>) =>
     /\ newIds = <<>>
     /\ nextFaceId = prevNextId
     /\ passedIn = prevTracks
     /\ \A i \in 1..Len(trackedFaces) :
          \E j \in 1..Len(prevTracks) :
            /\ trackedFaces[i].id = prevTracks[j].id
            /\ trackedFaces[i].data = prevTracks[j].data
            /\ trackedFaces[i].lastSeen = prevTracks[j].lastSeen
     /\ trackedFaces = <<>> <=>
          \A j \in 1..Len(prevTracks) :
            now >= prevTracks[j].lastSeen + STALE_TRACK_TIMEOUT

C14_EmptyDetectionsAgeOut ==
  /\ []EmptyUpdate
  /\ <>[](trackedFaces = <<>>)

C14_Witness ==
  /\ cycles > 1
  /\ lastDets = <<>>
  /\ Len(prevTracks) = 1
  /\ trackedFaces = <<>>
  /\ \E g \in gone : g.id # prevTracks[1].id


\* C15: a slot whose track an update evicts, and every slot that an earlier
\* eviction emptied and no track has taken since, is among the available
\* slots of the assign that follows; after that assign the slot is unoccupied
\* (its entry is null) or held by a track that had no slot before the assign,
\* and no track is left without a slot while such a slot is unoccupied.
FreedSlots == (freed \cup {prevTracks[i].slotIndex : i \in Evicted}) \ {NoSlot}

Holders(k) == {i \in 1..Len(trackedFaces) : trackedFaces[i].slotIndex = k}

C15_EvictionFreesSlot ==
  \A k \in FreedSlots :
    /\ k \in Range(getAvailableSlots(updated, NumSlots))
    /\ \A i \in Holders(k) : updated[i].slotIndex = NoSlot
    /\ Holders(k) = {} =>
         /\ displayFaces[k + 1] = Null
         /\ \A i \in 1..Len(trackedFaces) : trackedFaces[i].slotIndex # NoSlot

\* a track created in a later cycle than the eviction holds the freed slot
C15_Witness ==
  \E i \in 1..Len(trackedFaces) :
    /\ trackedFaces[i].id \in Range(newIds)
    /\ trackedFaces[i].slotIndex \in freed
    /\ \E g \in gone : g.id < trackedFaces[i].id


\* C16: the array assignFacesToSlots returns has exactly numSlots entries;
\* entry i is the current box of the track whose slot is i, and it is null
\* exactly when no track of the TrackSet holds slot i.
C16_OutputMatchesSlots ==
  (call.op = "assign" /\ signal = "none") =>
     /\ Len(displayFaces) = call.numSlots
     /\ \A k \in 0..call.numSlots - 1 :
          /\ \A i \in Holders(k) : displayFaces[k + 1] = trackedFaces[i].data
          /\ displayFaces[k + 1] = Null <=> Holders(k) = {}

\* two slots asked for: one shows the box of a track that the assign moved
\* there from slot 2, the other is empty
C16_Witness ==
  /\ call.op = "assign" /\ signal = "none"
  /\ call.numSlots = 2
  /\ \E k \in 0..1 : \E i \in Holders(k) :
       /\ updated[i].slotIndex = 2
       /\ displayFaces[k + 1] = trackedFaces[i].data
  /\ \E k \in 0..1 : Holders(k) = {} /\ displayFaces[k + 1] = Null

\* C17: assignFacesToSlots called with numSlots <= 0 raises an error and
\* returns no array.
C17_NoSlotsRejected ==
  (call.op = "assign" /\ call.numSlots <= 0) => signal # "none"

\* C18: updateTrackedFaces called with a now earlier than the now of the call
\* before raises an error; it returns no TrackSet and moves no lastSeen back.
C18_BackwardNowRejected ==
  (call.op = "update" /\ lastDetectionTime < prevTime) =>
     /\ signal # "none"
     /\ \A i \in 1..Len(prevTracks) : passedIn[i].lastSeen >= prevTracks[i].lastSeen


\* C19: updateTrackedFaces leaves the slot of every track it keeps as it was
\* before the call and creates every track without a slot; a slot is set or
\* changed only between the TrackSet the update returns and the TrackSet
\* after assignFacesToSlots.
PrevAt(id) == {j \in 1..Len(prevTracks) : prevTracks[j].id = id}

C19_TrackerLeavesSlots ==
  cycles > 0 =>
    /\ \A i \in 1..Len(prevTracks) : passedIn[i].slotIndex = prevTracks[i].slotIndex
    /\ \A i \in 1..Len(updated) :
         /\ \A j \in PrevAt(updated[i].id) :
              updated[i].slotIndex = prevTracks[j].slotIndex
         /\ PrevAt(updated[i].id) = {} =>
              /\ updated[i].id \in Range(newIds)
              /\ updated[i].slotIndex = NoSlot

\* a track that adopted a detection keeps its slot through the update, and a
\* track created in the same update gets its slot from the assign
C19_Witness ==
  /\ \E i \in 1..Len(updated) : \E j \in PrevAt(updated[i].id) :
       /\ claims[j] # 0
       /\ prevTracks[j].slotIndex # NoSlot
       /\ updated[i].slotIndex = prevTracks[j].slotIndex
  /\ \E i \in 1..Len(updated) :
       /\ updated[i].id \in Range(newIds)
       /\ updated[i].slotIndex = NoSlot
       /\ trackedFaces[i].slotIndex # NoSlot


\* C20: in the matching pass a track adopts a detection exactly when its
\* smallest centre distance to the detections that no earlier track claimed
\* is strictly below the threshold, and then it adopts a nearest one and its
\* lastSeen is now; otherwise (at exactly the threshold, or with nothing left
\* to claim) it keeps its box and its lastSeen, and every detection that no
\* track claimed becomes a new track.
ClaimedBefore(i) == {claims[j] : j \in 1..i - 1} \ {0}

Unclaimed(i) == (1..Len(lastDets)) \ ClaimedBefore(i)

Limit == 4 * MATCH_DISTANCE_THRESHOLD * MATCH_DISTANCE_THRESHOLD

Gap(i, d) == calculateFaceDistance(lastDets[d], prevTracks[i].data)

Nearest(i, S) == {d \in S : \A e \in S : Gap(i, d) <= Gap(i, e)}

C21_EarlierTrackFirst ==
  cycles > 0 =>
    \A i, j \in 1..Len(prevTracks) :
      i < j =>
        /\ prevTracks[i].id < prevTracks[j].id
        /\ \A d \in Unclaimed(i) :
             (/\ Nearest(i, Unclaimed(i)) = {d}
              /\ d \in Nearest(j, Unclaimed(i))
              /\ Gap(i, d) < Limit) =>
                /\ claims[i] = d
                /\ claims[j] # d
                /\ claims[j] # 0 =>
                     /\ claims[j] \in Nearest(j, Unclaimed(j))
                     /\ Gap(j, claims[j]) < Limit
                /\ claims[j] = 0 =>
                     \A e \in Unclaimed(j) : Gap(j, e) >= Limit

\* the earlier track took the detection both were nearest to and the later
\* track stayed unmatched, although giving the earlier track the other
\* detection would have matched both
C21_Witness ==
  \E i, j \in 1..Len(prevTracks) :
    \E d, e \in 1..Len(lastDets) :
      /\ i < j /\ d # e
      /\ Nearest(i, Unclaimed(i)) = {d}
      /\ d \in Nearest(j, Unclaimed(i))
      /\ claims[i] = d
      /\ claims[j] = 0
      /\ Gap(j, d) < Limit
      /\ Gap(i, e) < Limit


\* C22: every detection that no track claimed becomes exactly one new track
\* with that box, lastSeen = now and no slot; the new ids are nextId,
\* nextId + 1, ... in the order of the detections, and the next id returned
\* is the incoming one plus the number of unclaimed detections.
LeftOver == Unclaimed(Len(prevTracks) + 1)

\* the k-th unclaimed detection in array order
NthLeftOver(k) == CHOOSE d \in LeftOver : Cardinality({e \in LeftOver : e < d}) = k - 1

C22_UnclaimedBecomeTracks ==
  cycles > 0 =>
    /\ Len(newIds) = Cardinality(LeftOver)
    /\ nextFaceId = prevNextId + Cardinality(LeftOver)
    /\ nextFaceId >= prevNextId
    /\ \A k \in 1..Len(newIds) :
         /\ newIds[k] = prevNextId + k - 1
         /\ Cardinality({i \in 1..Len(updated) : updated[i].id = newIds[k]}) = 1
         /\ \A i \in 1..Len(updated) :
              updated[i].id = newIds[k] =>
                /\ updated[i].data = lastDets[NthLeftOver(k)]
                /\ updated[i].lastSeen = now
                /\ updated[i].slotIndex = NoSlot
    /\ \A i \in 1..Len(updated) :
         updated[i].id \in Range(newIds) \/ PrevAt(updated[i].id) # {}

\* two detections with different boxes were left over in a cycle that ran on
\* a TrackSet with tracks in it
C22_Witness ==
  /\ cycles > 0
  /\ prevNextId > 0
  /\ Len(prevTracks) > 0
  /\ Len(newIds) = 2
  /\ lastDets[NthLeftOver(1)] # lastDets[NthLeftOver(2)]


\* C23: in App.tsx the slots are recomputed from the TrackSet in every loop:
\* slot i shows the track with the i-th lowest id that is left; so in the
\* loop that evicts the lowest-id track and no other, slot 0 shows the track
\* with the next-lowest id and every other track is one position lower than
\* it was.
AppGone == {p \in 1..Len(appInput) : appInput[p].id \notin Ids(appTracks)}

C23_ArrivalSlotsRecomputed ==
  Len(appLog) > 0 =>
    /\ \A k \in 1..NumSlots :
         appDisplay[k] = IF k <= Len(appTracks) THEN appTracks[k].data ELSE Null
    /\ \A k \in 1..Len(appTracks) : \A m \in 1..Len(appTracks) :
         k < m => appTracks[k].id < appTracks[m].id
    /\ AppGone = {1} =>
         \A p \in 2..Len(appInput) :
           /\ appTracks[p - 1].id = appInput[p].id
           /\ p - 1 <= NumSlots => appDisplay[p - 1] = appTracks[p - 1].data

\* the loop evicted the lowest id alone, and the track that was in slot 1 is
\* shown in slot 0
C23_Witness ==
  /\ Len(appLog) > 0
  /\ AppGone = {1}
  /\ Len(appInput) >= 2
  /\ appDisplay[1] = appTracks[1].data
  /\ appTracks[1].id = appInput[2].id


\* C24: a track that receives a slot from assignFacesToSlots receives one in
\* [0, numSlots) that no track held when the call began, two tracks never
\* receive the same one, and a track that held a slot in range keeps it;
\* every slot that was free can be the one the first unassigned track
\* receives. assignRandomSlot returns a free slot in range (undefined exactly
\* when none is free), and every free slot can be the one returned.
FreeBefore == Range(getAvailableSlots(updated, call.numSlots))

Received == {i \in 1..Len(trackedFaces) : trackedFaces[i].slotIndex # updated[i].slotIndex}

C24_ReceivedSlotWasFree ==
  /\ (call.op = "assign" /\ signal = "none") =>
       /\ \A i \in Received :
            /\ trackedFaces[i].slotIndex \in 0..call.numSlots - 1
            /\ trackedFaces[i].slotIndex \notin SlotsHeld(updated)
            /\ \A j \in Received : i # j => trackedFaces[i].slotIndex # trackedFaces[j].slotIndex
       /\ \A i \in 1..Len(updated) :
            updated[i].slotIndex \in 0..call.numSlots - 1 =>
              trackedFaces[i].slotIndex = updated[i].slotIndex
       /\ Len(UnassignedFaces(updated, call.numSlots)) > 0 =>
            \A k \in FreeBefore :
              \E rnd \in RandomDraws(Cardinality(FreeBefore)) :
                AssignedTracks(updated, call.numSlots, rnd)
                  [UnassignedFaces(updated, call.numSlots)[1]].slotIndex = k
  /\ call.op = "assignRandomSlot" =>
       /\ picked = NoSlot <=> FreeBefore = {}
       /\ picked # NoSlot => picked \in FreeBefore
       /\ FreeBefore \subseteq 0..call.numSlots - 1
       /\ FreeBefore \cap SlotsHeld(updated) = {}
       /\ \A k \in FreeBefore :
            \E randomIndex \in RandomIndexes(Cardinality(FreeBefore)) :
              assignRandomSlot(updated, call.numSlots, randomIndex) = k

\* with another track keeping its slot, a track received a free slot that is
\* not the lowest free one
C24_Witness ==
  /\ call.op = "assign" /\ signal = "none"
  /\ \E i \in Received : \E k \in FreeBefore : k < trackedFaces[i].slotIndex
  /\ \E j \in 1..Len(updated) :
       /\ updated[j].slotIndex \in 0..call.numSlots - 1
       /\ trackedFaces[j].slotIndex = updated[j].slotIndex


\* C25: after assignFacesToSlots returns, every track holds a slot in
\* [0, numSlots) or every one of the numSlots slots is held; the number of
\* entries of the output that are not null is the smaller of the number of
\* tracks and numSlots.
HeldSlots == {k \in 0..call.numSlots - 1 : Holders(k) # {}}

Shown == {k \in 1..Len(displayFaces) : displayFaces[k] # Null}

C25_SlotsFilledFirst ==
  (call.op = "assign" /\ signal = "none") =>
     /\ \/ \A i \in 1..Len(trackedFaces) : trackedFaces[i].slotIndex \in 0..call.numSlots - 1
        \/ Cardinality(HeldSlots) = call.numSlots
     /\ Cardinality(Shown) = IF Len(trackedFaces) < call.numSlots
                              THEN Len(trackedFaces) ELSE call.numSlots

\* more tracks than slots: every slot is held and a track is left without
C25_Witness ==
  /\ call.op = "assign" /\ signal = "none"
  /\ call.numSlots >= 1
  /\ Len(trackedFaces) > call.numSlots
  /\ Cardinality(HeldSlots) = call.numSlots
  /\ \E i \in 1..Len(trackedFaces) : trackedFaces[i].slotIndex = NoSlot


\* C26: after every cycle each entry of displayFaces that is not null is the
\* current box of the one track that holds that slot, a track of the TrackSet
\* the update of this cycle returned; a track that went unmatched past the
\* stale timeout is in no slot, and no track is in two slots.
HolderOf(k) == {i \in 1..Len(trackedFaces) : trackedFaces[i].slotIndex = k - 1}

C26_OnlyLiveTracksShown ==
  cycles > 0 =>
    /\ Len(updated) = Len(trackedFaces)
    /\ \A k \in 1..Len(displayFaces) :
         displayFaces[k] # Null =>
           /\ Cardinality(HolderOf(k)) = 1
           /\ \A i \in HolderOf(k) :
                /\ updated[i].id = trackedFaces[i].id
                /\ displayFaces[k] = updated[i].data
                /\ now - updated[i].lastSeen < STALE_TRACK_TIMEOUT
    /\ \A k, m \in 1..Len(displayFaces) : k # m => HolderOf(k) \cap HolderOf(m) = {}
    /\ \A p \in 1..Len(prevTracks) :
         (claims[p] = 0 /\ now - prevTracks[p].lastSeen >= STALE_TRACK_TIMEOUT) =>
           \A i \in 1..Len(trackedFaces) : trackedFaces[i].id # prevTracks[p].id

\* the cycle evicted a track whose box was shown; its slot no longer shows
\* that box, while the box of a live track is shown
C26_Witness ==
  /\ cycles > 0
  /\ \E p \in Evicted :
       /\ prevTracks[p].slotIndex # NoSlot
       /\ displayFaces[prevTracks[p].slotIndex + 1] # prevTracks[p].data
  /\ \E k \in 1..Len(displayFaces) : displayFaces[k] # Null


\* C27: the TrackSet updateTrackedFaces returns is in strictly ascending id,
\* whatever the order of the TrackSet passed in; it holds the tracks that
\* were passed in and are still fresh, and the tracks the call created.
C27_ReturnedSortedById ==
  call.op = "update" =>
    /\ \A i, j \in 1..Len(updated) : i < j => updated[i].id < updated[j].id
    /\ trackedFaces = updated
    /\ Ids(updated) \subseteq Ids(prevTracks) \cup Range(newIds)

\* tracks passed in with the ids out of order, returned in order with a
\* track the call created after them
C27_Witness ==
  /\ call.op = "update"
  /\ Len(prevTracks) >= 2
  /\ prevTracks[1].id > prevTracks[2].id
  /\ Len(updated) >= 3
  /\ Len(newIds) > 0
  /\ Ids(prevTracks) \cap Ids(updated) # {}


\* C28: the loop of App.tsx and updateTrackedFaces, run on the same
\* detections and the same now from the empty TrackSet and next id 0, hold
\* after every cycle the same tracks (id, box, lastSeen) in the same order
\* and the same next id.
WithoutSlot(tracks) ==
  [i \in 1..Len(tracks) |->
     AppTrackedFace(tracks[i].id, tracks[i].data, tracks[i].lastSeen)]

C28_TrackersAgree ==
  /\ cycles = appCycles
  /\ WithoutSlot(trackedFaces) = appTracks
  /\ nextFaceId = appNextId

\* after three cycles side by side: a track was evicted, a track adopted a
\* detection and a track was created in the last cycle
C28_Witness ==
  /\ cycles = 3 /\ appCycles = 3
  /\ Len(appTracks) >= 2
  /\ \E i \in 1..Len(appInput) : appInput[i].id \notin Ids(appTracks)
  /\ \E i \in 1..Len(claims) : claims[i] # 0
  /\ Len(newIds) > 0


\* C29: a call of trackingLoop runs a detection cycle only when its now is at
\* least DETECTION_INTERVAL after lastDetectionTime, and the cycle stores that
\* now in lastDetectionTime; every other step leaves the TrackSet, the next
\* id, lastDetectionTime and displayFaces as they were. The timestamps of
\* consecutive cycles therefore never decrease and are 50 ms or more apart.
CycleRan == cycles' # cycles

C29_ThrottledCycles ==
  [][/\ CycleRan =>
          /\ lastFrame'.cycle
          /\ lastFrame'.now - lastDetectionTime >= DETECTION_INTERVAL
          /\ lastDetectionTime' = lastFrame'.now
          /\ lastDetectionTime' - lastDetectionTime >= 50
     /\ ~CycleRan =>
          /\ UNCHANGED <<trackedFaces, nextFaceId, lastDetectionTime, displayFaces>>
          /\ lastFrame' # lastFrame => ~lastFrame'.cycle]_vars

\* two cycles exactly 50 ms apart left a track, and the frame 49 ms after the
\* second ran no cycle
C29_Witness ==
  /\ cycles = 2
  /\ lastDetectionTime - prevTime = DETECTION_INTERVAL
  /\ trackedFaces # <<>>
  /\ ~lastFrame.cycle
  /\ lastFrame.now - lastDetectionTime = DETECTION_INTERVAL - 1

\* C30: no loop exists before an effect run saw isVideoReady and
\* isModelReady both true; at most one loop is running and only it has a
\* frame pending; a cycle is run only by the running loop, so once the
\* cleanup has stopped a loop that loop runs no cycle again, and while no
\* loop is running the TrackSet and the next id stay as they are.
Running(ls) == {k \in 1..Len(ls) : ls[k].isRunning}

BothReady(i) == deps[i] = <<TRUE, TRUE>>

OneLoop ==
  /\ Cardinality(Running(loops)) <= 1
  /\ Len(loops) = Cardinality({i \in 1..Len(deps) : BothReady(i)})
  /\ Running(loops) # {} => mounted /\ BothReady(Len(deps)) /\ destroy \in Running(loops)
  /\ \A c \in callbacks :
       c.loop \in Running(loops) /\ loops[c.loop].animationFrameId = c.handle
  /\ cycles > 0 => Len(loops) > 0

OnlyRunningLoopCycles ==
  /\ CycleRan => lastFrame'.loop \in Running(loops')
  /\ lastFrame' # lastFrame => lastFrame'.loop \in Running(loops')
  /\ (Running(loops) = {} /\ Running(loops') = {}) => UNCHANGED <<trackedFaces, nextFaceId>>
  /\ \A k \in 1..Len(loops) : ~loops[k].isRunning => ~loops'[k].isRunning

C30_CleanupStopsLoop == []OneLoop /\ [][OnlyRunningLoopCycles]_vars

\* the first loop ran a cycle and was stopped by its cleanup, the second loop
\* is running and ran the last cycle
C30_Witness ==
  /\ Len(loops) = 2
  /\ ~loops[1].isRunning
  /\ loops[2].isRunning
  /\ cycles = 2
  /\ lastFrame.loop = 2
  /\ lastFrame.cycle
  /\ trackedFaces # <<>>


\* C31: detectFaces throws nothing; when the detector is not initialized or
\* detectForVideo threw, the cycle got no detections: it created no track,
\* left the next id alone, kept exactly the tracks seen less than the stale
\* timeout ago, each with its box and lastSeen, and evicted the others.
DetectorFailed == detectorCall \in {"notInitialized", "threw"}

C31_DetectorFailureIsEmptyCycle ==
  /\ signal = "none"
  /\ faceDetector = Null => detectorCall \in {"none", "notInitialized"}
  /\ DetectorFailed =>
       /\ cycles > 0
       /\ lastDets = <<>>
       /\ newIds = <<>>
       /\ nextFaceId = prevNextId
       /\ \A i \in 1..Len(prevTracks) :
            Survives(i) <=> now - prevTracks[i].lastSeen < STALE_TRACK_TIMEOUT
       /\ \A j \in 1..Len(trackedFaces) :
            \E i \in 1..Len(prevTracks) :
              /\ trackedFaces[j].id = prevTracks[i].id
              /\ trackedFaces[j].data = prevTracks[i].data
              /\ trackedFaces[j].lastSeen = prevTracks[i].lastSeen

\* detectForVideo threw in a cycle that kept one track as it was and evicted
\* another, seen the stale timeout before
C31_Witness ==
  /\ detectorCall = "threw"
  /\ \E i, e \in 1..Len(prevTracks) :
       /\ Survives(i)
       /\ \A j \in At(prevTracks[i].id) : trackedFaces[j].lastSeen = prevTracks[i].lastSeen
       /\ ~Survives(e)
       /\ now - prevTracks[e].lastSeen = STALE_TRACK_TIMEOUT

====
